---- MODULE Spec2Model ----
(***************************************************************************)
(* GDPRCheck360 backend (src/backend/main.py): the scan job store SCANS,   *)
(* the request handlers create_scan and get_scan, the background pipeline  *)
(* _run_real_scan statement by statement, the rule evaluator analyze and   *)
(* the scorer compute_score.                                               *)
(*                                                                         *)
(* Handlers are plain `def` functions, so the framework runs them and the  *)
(* background tasks on worker threads: every statement of _run_real_scan   *)
(* that touches SCANS is one step and may interleave with any handler.     *)
(***************************************************************************)
EXTENDS Integers, Sequences, FiniteSets, TLC

(* ------------------------------ bounds -------------------------------- *)

\* Number of scan identifiers create_scan can issue in one run.
MaxScans == 2

\* Longest finding sequence handed to compute_score in ScoreSpec.
MaxFindings == 6

ScanIds == 1 .. MaxScans

\* An identifier that uuid4 never returns in the run: always unknown.
UnknownId == 0

QueryIds == {UnknownId} \cup ScanIds

(* --------------------------- optional values --------------------------- *)

\* Python's None / a present value, for the Optional fields of ScanResult.
None == << >>

Some(x) == << x >>

Present(o) == o # None

Get(o) == o[1]

(* ----------------------------- constants ------------------------------- *)

SEC_HEADERS ==
  << "Strict-Transport-Security", "Content-Security-Policy",
     "X-Content-Type-Options", "Referrer-Policy", "Permissions-Policy" >>

TRACKER_HINTS ==
  << "googletagmanager.com", "google-analytics.com", "gtag/js",
     "facebook.net", "connect.facebook.net", "fbq(",
     "hotjar.com", "static.hotjar.com", "clarity.ms",
     "segment.com", "tracker.js", "mixpanel.com" >>

CMP_HINTS ==
  << "__tcfapi", "__cmp", "OneTrust", "Didomi", "Cookiebot", "iubenda",
     "Quantcast Choice" >>

SeqToSet(s) == { s[i] : i \in 1 .. Len(s) }

\* Score a scan starts from, and the deduction of each severity.
BaseScore == 100

WeightHigh == 20

WeightMedium == 10

WeightLow == 3

Severities == { "high", "medium", "low" }

(* ------------------------------- URLs ---------------------------------- *)

\* A URL is <<scheme, host, path>>; a scheme-less input has scheme "".
Url(scheme, host, path) == << scheme, host, path >>

Scheme(u) == u[1]

\* url.startswith("http"): true of the schemes http and https.
StartsWithHttp(u) == Scheme(u) \in { "http", "https" }

\* target = url if url.startswith("http") else f"https://{url}"
NormalizeTarget(u) ==
  IF StartsWithHttp(u) THEN u ELSE Url("https", u[2], u[3])

\* final_url.startswith("https://")
StartsWithHttps(u) == Scheme(u) = "https"

\* httpx.URL(final_url).join(href): an absolute reference replaces the base,
\* a relative one keeps the base's scheme and host.
UrlJoin(base, href) ==
  IF href.absolute THEN href.url ELSE Url(base[1], base[2], href.url[3])

(* ------------------------------ findings ------------------------------- *)

\* Issue(area, severity, title, evidence, fix_hint); fix_hint is a fixed text
\* per title and is left out of the record.
Issue(area, severity, title, evidence) ==
  [ area |-> area, severity |-> severity, title |-> title,
    evidence |-> evidence ]

IssueUnreachable(cause, target) ==
  Issue("security", "high", "Sito non raggiungibile",
        [ error |-> cause, url |-> target ])

IssueNoHttps(final_url) ==
  Issue("security", "high", "Connessione non protetta (HTTPS mancante)",
        [ final_url |-> final_url ])

IssueMissingHeaders(missing) ==
  Issue("security", "low", "Header di sicurezza mancanti",
        [ missing |-> missing ])

IssuePolicyFound(candidate) ==
  Issue("policy", "medium", "Informativa privacy trovata ma non validata",
        [ policy_url |-> candidate ])

IssuePolicyMissing(final_url) ==
  Issue("policy", "high", "Informativa privacy non rilevata",
        [ page |-> final_url ])

IssueTrackersNoCmp(final_url, found_trackers) ==
  Issue("cookies", "high", "Tracker di terze parti senza CMP rilevata",
        [ url |-> final_url, found_scripts |-> found_trackers ])

IssueCmpDetected(found_cmp, found_trackers) ==
  Issue("cookies", "medium", "CMP rilevata. Verifica blocco preventivo",
        [ cmp |-> found_cmp, found_scripts |-> found_trackers ])

(* --------------------------- fetched resource -------------------------- *)

\* What analyze reads from an httpx.Response:
\*   final_url      str(resp.url), after redirects
\*   headers        the names h of SEC_HEADERS with `h in resp.headers`
\*   anchors        the <a> elements of resp.text in document order, each
\*                  with has_href, text_privacy ("privacy" in its lowered
\*                  text) and href (valid: httpx.URL accepts it; privacy:
\*                  "privacy" in its lowered value; absolute; url)
\*   trackers, cmps the entries of TRACKER_HINTS / CMP_HINTS that are
\*                  substrings of resp.text
Href(valid, privacy, absolute, url) ==
  [ valid |-> valid, privacy |-> privacy, absolute |-> absolute, url |-> url ]

Anchor(has_href, text_privacy, href) ==
  [ has_href |-> has_href, text_privacy |-> text_privacy, href |-> href ]

Page(final_url, headers, anchors, trackers, cmps) ==
  [ final_url |-> final_url, headers |-> headers, anchors |-> anchors,
    trackers |-> trackers, cmps |-> cmps ]

\* The outcome of http_get(target): a response, or an exception whose
\* str(e) is `cause`.
FetchOk(page) == [ ok |-> TRUE, page |-> page ]

FetchFailed(cause) == [ ok |-> FALSE, error |-> cause ]

(* ------------------------------- analyze ------------------------------- *)

\* The outcome of a call: a returned value, or an exception that leaves it.
Returned(v) == [ raised |-> FALSE, value |-> v ]

Raised == [ raised |-> TRUE ]

\* Mutant of RuleHttps: the test has lost its `not`.
RuleHttpsInverted(page) ==
  IF StartsWithHttps(page.final_url)
  THEN << IssueNoHttps(page.final_url) >>
  ELSE << >>

\* if not final_url.startswith("https://"): issues.append(...)
RuleHttps(page) ==
  IF ~StartsWithHttps(page.final_url)
  THEN << IssueNoHttps(page.final_url) >>
  ELSE << >>

\* Mutant of MissingHeaders: the scan stops at the first missing header.
MissingHeadersFirstOnly(page) ==
  SubSeq(SelectSeq(SEC_HEADERS, LAMBDA h : h \notin page.headers), 1, 1)

\* missing = [h for h in SEC_HEADERS if h not in headers]
MissingHeaders(page) ==
  SelectSeq(SEC_HEADERS, LAMBDA h : h \notin page.headers)

\* if missing: issues.append(...)
RuleHeaders(page) ==
  IF MissingHeaders(page) # << >>
  THEN << IssueMissingHeaders(MissingHeaders(page)) >>
  ELSE << >>

\* The test of the loop over soup.find_all("a", href=True).
AnchorMatches(a) ==
  a.has_href /\ (a.text_privacy \/ a.href.privacy)

\* Index of the anchor at which the loop breaks; 0 when it runs to the end.
FirstPolicyAnchor(anchors) ==
  IF \E i \in 1 .. Len(anchors) : AnchorMatches(anchors[i])
  THEN CHOOSE i \in 1 .. Len(anchors) :
         /\ AnchorMatches(anchors[i])
         /\ \A j \in 1 .. (i - 1) : ~AnchorMatches(anchors[j])
  ELSE 0

\* httpx.URL(final_url).join(a["href"]) raises InvalidURL on a malformed href.
PolicyRaises(page) ==
  /\ FirstPolicyAnchor(page.anchors) # 0
  /\ ~page.anchors[FirstPolicyAnchor(page.anchors)].href.valid

\* Mutant of RulePolicy: a link that was found is not reported.
RulePolicySilentWhenFound(page) ==
  IF FirstPolicyAnchor(page.anchors) # 0
  THEN << >>
  ELSE << IssuePolicyMissing(page.final_url) >>

\* if candidate: ... else: ...   (evaluated when the join did not raise)
RulePolicy(page) ==
  IF FirstPolicyAnchor(page.anchors) # 0
  THEN << IssuePolicyFound(
            UrlJoin(page.final_url,
                    page.anchors[FirstPolicyAnchor(page.anchors)].href)) >>
  ELSE << IssuePolicyMissing(page.final_url) >>

\* found_trackers = [t for t in TRACKER_HINTS if t in html]
FoundTrackers(page) ==
  SelectSeq(TRACKER_HINTS, LAMBDA t : t \in page.trackers)

\* found_cmp = [c for c in CMP_HINTS if c in html]
FoundCmp(page) ==
  SelectSeq(CMP_HINTS, LAMBDA c : c \in page.cmps)

\* Mutant of RuleTrackers: the CMP branch is a second `if`, not the `else`.
RuleTrackersBothBranches(page) ==
  IF FoundTrackers(page) # << >>
  THEN << IssueTrackersNoCmp(page.final_url, FoundTrackers(page)) >>
         \o (IF FoundCmp(page) # << >>
             THEN << IssueCmpDetected(FoundCmp(page), FoundTrackers(page)) >>
             ELSE << >>)
  ELSE << >>

\* if found_trackers: if not found_cmp: ... else: ...
RuleTrackers(page) ==
  IF FoundTrackers(page) # << >>
  THEN IF FoundCmp(page) = << >>
       THEN << IssueTrackersNoCmp(page.final_url, FoundTrackers(page)) >>
       ELSE << IssueCmpDetected(FoundCmp(page), FoundTrackers(page)) >>
  ELSE << >>

\* Mutant of EvaluateRules: the tracker block stands before the policy block.
EvaluateRulesTrackersEarly(page) ==
  RuleHttps(page) \o RuleHeaders(page) \o RuleTrackers(page) \o RulePolicy(page)

\* The rules on a fetched page, in the order analyze appends their findings.
EvaluateRules(page) ==
  RuleHttps(page) \o RuleHeaders(page) \o RulePolicy(page) \o RuleTrackers(page)

\* Mutant of OnFetchError: the except branch does not return, so the rules
\* still add to the list.
OnFetchErrorFallThrough(cause, target) ==
  << IssueUnreachable(cause, target), IssuePolicyMissing(target) >>

\* except Exception as e: issues.append(...); return issues
OnFetchError(cause, target) ==
  << IssueUnreachable(cause, target) >>

\* analyze(url), given what http_get(target) does.
analyze(url, outcome) ==
  IF ~outcome.ok
  THEN Returned(OnFetchError(outcome.error, NormalizeTarget(url)))
  ELSE IF PolicyRaises(outcome.page)
       THEN Raised
       ELSE Returned(EvaluateRules(outcome.page))

(* ---------------------------- compute_score ---------------------------- *)

Max(a, b) == IF a >= b THEN a ELSE b

Min(a, b) == IF a <= b THEN a ELSE b

\* if i.severity == "high": ... elif i.severity == "medium": ... else: ...
ScoreStep(score, i) ==
  IF i.severity = "high" THEN score - WeightHigh
  ELSE IF i.severity = "medium" THEN score - WeightMedium
  ELSE score - WeightLow

RECURSIVE ScoreLoopStopsAtLow(_, _, _)
\* Mutant of ScoreLoop: the else branch leaves the loop after its deduction.
ScoreLoopStopsAtLow(issues, k, score) ==
  IF k > Len(issues) THEN score
  ELSE IF issues[k].severity \notin { "high", "medium" }
       THEN ScoreStep(score, issues[k])
       ELSE ScoreLoopStopsAtLow(issues, k + 1, ScoreStep(score, issues[k]))

RECURSIVE ScoreLoop(_, _, _)
\* for i in issues: ...   from the k-th finding on, with `score` so far.
ScoreLoop(issues, k, score) ==
  IF k > Len(issues) THEN score
  ELSE ScoreLoop(issues, k + 1, ScoreStep(score, issues[k]))

\* Mutant of ClampScore: the result is returned as computed.
ClampScoreMissing(score) == score

\* return max(0, min(100, score))
ClampScore(score) == Max(0, Min(100, score))

compute_score(issues) == ClampScore(ScoreLoop(issues, 1, BaseScore))

(* -------------------------------- state -------------------------------- *)

VARIABLES
  SCANS,    \* the job store: scan_id -> ScanResult
  call,     \* per scan_id, where its create_scan call stands
  pc,       \* per scan_id, where its background task _run_real_scan stands
  req,      \* per scan_id, the (target_url, depth) arguments of its task
  issues,   \* per scan_id, the local variable `issues` of its task
  fetched,  \* per scan_id, what each http_get call of its task did, in order
  ret,      \* what the step just taken returned to its HTTP caller
  scCur,    \* ScoreSpec: the finding sequence handed to compute_score
  score0,   \* ScoreSpec: the first score computed in the run
  scOut,    \* ScoreSpec: the score computed for scCur
  scSwapped \* ScoreSpec: scCur was reordered after score0 was computed

jobVars == << SCANS, call, pc, req, issues, fetched, ret >>

scoreVars == << scCur, score0, scOut, scSwapped >>

vars ==
  << SCANS, call, pc, req, issues, fetched, ret, scCur, score0, scOut,
     scSwapped >>

\* ScanResult(scan_id=..., status=..., score=None, issues=None)
ScanResult(scan_id, status, score, found) ==
  [ scan_id |-> scan_id, status |-> status, score |-> score, issues |-> found ]

\* SCANS[scan_id] = record
Store(store, scan_id, record) ==
  [ k \in (DOMAIN store) \cup { scan_id } |->
      IF k = scan_id THEN record ELSE store[k] ]

NoRet == [ op |-> "none", id |-> UnknownId, body |-> None ]

Response(op, scan_id, record) ==
  [ op |-> op, id |-> scan_id, body |-> Some(record) ]

(* ------------------------------- inputs -------------------------------- *)

\* ScanRequest.url is an HttpUrl: it always carries the scheme http or https.
Urls == { Url("https", "site.example", "/") }

Depths == { "quick", "extended" }

FetchCauses == { "timed out" }

HrefPrivacy == Href(TRUE, TRUE, FALSE, Url("", "", "/privacy"))

HrefMalformed == Href(FALSE, TRUE, TRUE, Url("http", "[", "/privacy"))

\* HTTPS, every header, a privacy link, no tracker.
PageTidy ==
  Page(Url("https", "site.example", "/"), SeqToSet(SEC_HEADERS),
       << Anchor(TRUE, TRUE, HrefPrivacy) >>, { }, { })

\* HTTPS, two headers missing, no privacy link, trackers and no CMP.
PageTracked ==
  Page(Url("https", "site.example", "/"),
       SeqToSet(SEC_HEADERS) \ { "Content-Security-Policy", "Permissions-Policy" },
       << >>, { "gtag/js", "googletagmanager.com" }, { })

\* Plain HTTP, no header, trackers behind a CMP, no privacy link.
PagePlain ==
  Page(Url("http", "site.example", "/"), { },
       << Anchor(FALSE, TRUE, HrefPrivacy) >>, { "fbq(" }, { "OneTrust" })

\* A privacy link whose href httpx.URL rejects.
PageMalformedLink ==
  Page(Url("https", "site.example", "/"), SeqToSet(SEC_HEADERS),
       << Anchor(TRUE, FALSE, HrefMalformed) >>, { }, { })

Pages == { PageTidy, PageTracked, PagePlain, PageMalformedLink }

\* What http_get can do for a job of the concurrent model.
FetchOutcomes ==
  { FetchFailed(c) : c \in FetchCauses } \cup { FetchOk(p) : p \in Pages }

(* ----------------------------- create_scan ----------------------------- *)

\* scan_id = str(uuid.uuid4()): an identifier not issued before.
uuid4 == ScanIds \ DOMAIN SCANS

\* Mutant of AddTask: the task is started at once instead of being queued
\* behind the response.
AddTaskStartsNow == "l162"

\* bg.add_task(...): the task waits until the response has been sent.
AddTask == "queued"

\* Lines 172-174 of create_scan.
CreateScan(scan_id, url, depth) ==
  /\ scan_id \in uuid4
  /\ SCANS' = Store(SCANS, scan_id, ScanResult(scan_id, "pending", None, None))
  /\ req' = [ req EXCEPT ![scan_id] = [ url |-> url, depth |-> depth ] ]
  /\ pc' = [ pc EXCEPT ![scan_id] = AddTask ]
  /\ call' = [ call EXCEPT ![scan_id] = "l175" ]
  /\ ret' = NoRet
  /\ UNCHANGED << issues, fetched, scoreVars >>

\* Line 175: return SCANS[scan_id]; the response is sent, and only then
\* does the framework run the queued background task.
CreateReturn(scan_id) ==
  /\ call[scan_id] = "l175"
  /\ ret' = Response("create_scan", scan_id, SCANS[scan_id])
  /\ call' = [ call EXCEPT ![scan_id] = "returned" ]
  /\ pc' = [ pc EXCEPT ![scan_id] = IF @ = "queued" THEN "l162" ELSE @ ]
  /\ UNCHANGED << SCANS, req, issues, fetched, scoreVars >>

(* ------------------------------- get_scan ------------------------------ *)

\* SCANS.get(scan_id) or ScanResult(scan_id=scan_id, status="error")
Lookup(scan_id) ==
  IF scan_id \in DOMAIN SCANS
  THEN SCANS[scan_id]
  ELSE ScanResult(scan_id, "error", None, None)

\* Mutant of GetScan: the lookup is SCANS.setdefault(scan_id, ...), which
\* stores the record it makes up for an unknown identifier.
GetScanSetDefault(scan_id) ==
  /\ ret' = Response("get_scan", scan_id, Lookup(scan_id))
  /\ SCANS' = Store(SCANS, scan_id, Lookup(scan_id))
  /\ UNCHANGED << call, pc, req, issues, fetched, scoreVars >>

GetScan(scan_id) ==
  /\ ret' = Response("get_scan", scan_id, Lookup(scan_id))
  /\ UNCHANGED << SCANS, call, pc, req, issues, fetched, scoreVars >>

(* ---------------------------- _run_real_scan --------------------------- *)

\* Mutant of RunL162: the write of "running" is left out.
RunL162Skipped(scan_id) ==
  /\ pc[scan_id] = "l162"
  /\ pc' = [ pc EXCEPT ![scan_id] = "l163" ]
  /\ ret' = NoRet
  /\ UNCHANGED << SCANS, call, req, issues, fetched, scoreVars >>

\* SCANS[scan_id].status = "running"
RunL162(scan_id) ==
  /\ pc[scan_id] = "l162"
  /\ SCANS' = [ SCANS EXCEPT ![scan_id].status = "running" ]
  /\ pc' = [ pc EXCEPT ![scan_id] = "l163" ]
  /\ ret' = NoRet
  /\ UNCHANGED << call, req, issues, fetched, scoreVars >>

\* Mutant of RunAnalyze: with depth "extended" and a policy link found, the
\* policy URL is fetched too (here: the fetch fails) and its findings are
\* merged after the primary page's.
RunAnalyzeExtended(scan_id, outcome) ==
  LET r == analyze(req[scan_id].url, outcome)
      second == FetchFailed("timed out")
      more == analyze(req[scan_id].url, second)
      deep == /\ req[scan_id].depth = "extended"
              /\ outcome.ok
              /\ ~r.raised
              /\ FirstPolicyAnchor(outcome.page.anchors) # 0
  IN
    /\ fetched' = [ fetched EXCEPT ![scan_id] =
                      IF deep THEN << outcome, second >> ELSE << outcome >> ]
    /\ IF r.raised
       THEN /\ pc' = [ pc EXCEPT ![scan_id] = "crashed" ]
            /\ UNCHANGED issues
       ELSE /\ pc' = [ pc EXCEPT ![scan_id] = "l166" ]
            /\ issues' = [ issues EXCEPT ![scan_id] =
                             Some(IF deep THEN r.value \o more.value
                                  ELSE r.value) ]

\* issues = analyze(target_url) when http_get does `outcome`: one call of
\* http_get, one attempt (c.get), whatever the depth; then the rules, on the
\* task's own locals. An exception leaving analyze ends the task where it
\* stands.
RunAnalyze(scan_id, outcome) ==
  LET r == analyze(req[scan_id].url, outcome) IN
    /\ fetched' = [ fetched EXCEPT ![scan_id] = Append(@, outcome) ]
    /\ IF r.raised
       THEN /\ pc' = [ pc EXCEPT ![scan_id] = "crashed" ]
            /\ UNCHANGED issues
       ELSE /\ pc' = [ pc EXCEPT ![scan_id] = "l166" ]
            /\ issues' = [ issues EXCEPT ![scan_id] = Some(r.value) ]

\* Line 163 of _run_real_scan, for the fetch outcomes of the concurrent model.
RunL163(scan_id) ==
  /\ pc[scan_id] = "l163"
  /\ \E outcome \in FetchOutcomes : RunAnalyze(scan_id, outcome)
  /\ ret' = NoRet
  /\ UNCHANGED << SCANS, call, req, scoreVars >>

\* Mutant of RunL166: `issues` is one module-level variable, so the task
\* stores what the task that assigned it last has found.
RunL166SharedIssues(scan_id) ==
  /\ pc[scan_id] = "l166"
  /\ \E j \in ScanIds :
       /\ Present(issues[j])
       /\ SCANS' = [ SCANS EXCEPT ![scan_id].issues = issues[j] ]
  /\ pc' = [ pc EXCEPT ![scan_id] = "l167" ]
  /\ ret' = NoRet
  /\ UNCHANGED << call, req, issues, fetched, scoreVars >>

\* time.sleep(0.5); SCANS[scan_id].issues = issues
RunL166(scan_id) ==
  /\ pc[scan_id] = "l166"
  /\ SCANS' = [ SCANS EXCEPT ![scan_id].issues = issues[scan_id] ]
  /\ pc' = [ pc EXCEPT ![scan_id] = "l167" ]
  /\ ret' = NoRet
  /\ UNCHANGED << call, req, issues, fetched, scoreVars >>

\* SCANS[scan_id].score = compute_score(issues)
RunL167(scan_id) ==
  /\ pc[scan_id] = "l167"
  /\ SCANS' = [ SCANS EXCEPT
                  ![scan_id].score = Some(compute_score(Get(issues[scan_id]))) ]
  /\ pc' = [ pc EXCEPT ![scan_id] = "l168" ]
  /\ ret' = NoRet
  /\ UNCHANGED << call, req, issues, fetched, scoreVars >>

\* SCANS[scan_id].status = "done"
RunL168(scan_id) ==
  /\ pc[scan_id] = "l168"
  /\ SCANS' = [ SCANS EXCEPT ![scan_id].status = "done" ]
  /\ pc' = [ pc EXCEPT ![scan_id] = "finished" ]
  /\ ret' = NoRet
  /\ UNCHANGED << call, req, issues, fetched, scoreVars >>

\* One step of the background task of scan_id.
RunRealScan(scan_id) ==
  \/ RunL162(scan_id)
  \/ RunL163(scan_id)
  \/ RunL166(scan_id)
  \/ RunL167(scan_id)
  \/ RunL168(scan_id)

(* ---------------------------- specification ---------------------------- *)

JobInit ==
  /\ SCANS = << >>
  /\ call = [ i \in ScanIds |-> "none" ]
  /\ pc = [ i \in ScanIds |-> "none" ]
  /\ req = [ i \in ScanIds |-> None ]
  /\ issues = [ i \in ScanIds |-> None ]
  /\ fetched = [ i \in ScanIds |-> None ]
  /\ ret = NoRet

Init ==
  /\ JobInit
  /\ scCur = << >>
  /\ score0 = None
  /\ scOut = None
  /\ scSwapped = FALSE

Next ==
  \/ \E i \in ScanIds, u \in Urls, d \in Depths : CreateScan(i, u, d)
  \/ \E i \in ScanIds : CreateReturn(i)
  \/ \E q \in QueryIds : GetScan(q)
  \/ \E i \in ScanIds : RunL162(i)
  \/ \E i \in ScanIds : RunL163(i)
  \/ \E i \in ScanIds : RunL166(i)
  \/ \E i \in ScanIds : RunL167(i)
  \/ \E i \in ScanIds : RunL168(i)

Spec == Init /\ [][Next]_vars

\* The worker threads are scheduled fairly, and http_get returns or raises
\* within its timeout: a handler or task that can take its next step does.
FairSpec ==
  /\ Spec
  /\ \A i \in ScanIds : WF_vars(CreateReturn(i))
  /\ \A i \in ScanIds : WF_vars(RunRealScan(i))

(* ------------------- compute_score on its own inputs ------------------- *)

\* Findings compute_score is applied to in ScoreSpec: both high findings of
\* different areas, a medium and a low one.
ScoreIssues ==
  { IssueUnreachable("timed out", Url("https", "site.example", "/")),
    IssueTrackersNoCmp(Url("https", "site.example", "/"), << "gtag/js" >>),
    IssuePolicyFound(Url("https", "site.example", "/privacy")),
    IssueMissingHeaders(<< "Referrer-Policy" >>) }

ScoreInputs == UNION { [ 1 .. n -> ScoreIssues ] : n \in 0 .. MaxFindings }

SwapAt(s, k) ==
  [ j \in 1 .. Len(s) |->
      IF j = k THEN s[k + 1] ELSE IF j = k + 1 THEN s[k] ELSE s[j] ]

\* A call compute_score(scCur).
ScoreCall ==
  /\ scOut = None
  /\ scOut' = Some(compute_score(scCur))
  /\ score0' = IF score0 = None THEN Some(compute_score(scCur)) ELSE score0
  /\ UNCHANGED << scCur, scSwapped, jobVars >>

\* The caller reorders the list: two neighbouring findings change places.
ScoreReorder(k) ==
  /\ k \in 1 .. (Len(scCur) - 1)
  /\ scCur[k] # scCur[k + 1]
  /\ scCur' = SwapAt(scCur, k)
  /\ scOut' = None
  /\ scSwapped' = (scSwapped \/ score0 # None)
  /\ UNCHANGED << score0, jobVars >>

ScoreInit ==
  /\ JobInit
  /\ scCur \in ScoreInputs
  /\ score0 = None
  /\ scOut = None
  /\ scSwapped = FALSE

ScoreNext ==
  \/ ScoreCall
  \/ \E k \in 1 .. MaxFindings : ScoreReorder(k)

ScoreSpec == ScoreInit /\ [][ScoreNext]_vars

(* --------------------- the rules on their own inputs ------------------- *)

\* Longest list of <a> elements of a page drawn in RuleSpec.
MaxAnchors == 2

HrefAbout == Href(TRUE, FALSE, TRUE, Url("https", "other.example", "/about"))

\* <a> without an href attribute: a["href"] is never read.
HrefAbsent == Href(TRUE, FALSE, FALSE, Url("", "", ""))

AnchorKinds ==
  { Anchor(TRUE, TRUE, HrefPrivacy),     \* <a href="/privacy">Privacy</a>
    Anchor(TRUE, TRUE, HrefAbout),       \* <a href="https://other...">Privacy</a>
    Anchor(TRUE, FALSE, HrefAbout),      \* <a href="https://other...">About</a>
    Anchor(FALSE, TRUE, HrefAbsent),     \* <a name="p">Privacy</a>
    Anchor(TRUE, FALSE, HrefMalformed) } \* href with "privacy" that is no URL

AnchorLists == UNION { [ 1 .. n -> AnchorKinds ] : n \in 0 .. MaxAnchors }

\* Bodies by the TRACKER_HINTS they contain: "connect.facebook.net" contains
\* "facebook.net".
TrackerChoices == { { }, { "facebook.net", "connect.facebook.net" } }

CmpChoices == { { }, { "OneTrust", "__tcfapi" } }

FinalUrls ==
  { Url("https", "site.example", "/"), Url("http", "site.example", "/") }

AllHeaders == SeqToSet(SEC_HEADERS)

\* The pages of RuleSpec: every set of response headers, every anchor list,
\* either scheme and each tracker/CMP content.
RulePages ==
  { Page(u, h, a, t, c) :
      u \in FinalUrls, h \in SUBSET AllHeaders, a \in AnchorLists,
      t \in TrackerChoices, c \in CmpChoices }

RuleOutcomes ==
  { FetchFailed(c) : c \in FetchCauses } \cup { FetchOk(p) : p \in RulePages }

\* The scans of RuleSpec: a first run, and a repeated run on the same input.
FirstRun == 1

SecondRun == 2

Ended(scan_id) == pc[scan_id] \in { "finished", "crashed" }

\* A scan of the one site of RuleSpec; the second is requested when the
\* first has ended.
RuleCreate(scan_id, url) ==
  /\ scan_id = FirstRun \/ (scan_id = SecondRun /\ Ended(FirstRun))
  /\ CreateScan(scan_id, url, "quick")

\* Line 163 of _run_real_scan in RuleSpec: the site answers with any page of
\* RulePages, and answers the repeated run as it answered the first.
RuleL163(scan_id) ==
  /\ pc[scan_id] = "l163"
  /\ \E outcome \in (IF scan_id = SecondRun
                      THEN { fetched[FirstRun][1] }
                      ELSE RuleOutcomes) :
       RunAnalyze(scan_id, outcome)
  /\ ret' = NoRet
  /\ UNCHANGED << SCANS, call, req, scoreVars >>

RuleNext ==
  \/ \E i \in { FirstRun, SecondRun }, u \in Urls : RuleCreate(i, u)
  \/ \E i \in { FirstRun, SecondRun } : CreateReturn(i)
  \/ \E i \in { FirstRun, SecondRun } : RunL162(i)
  \/ \E i \in { FirstRun, SecondRun } : RuleL163(i)
  \/ \E i \in { FirstRun, SecondRun } : RunL166(i)
  \/ \E i \in { FirstRun, SecondRun } : RunL167(i)
  \/ \E i \in { FirstRun, SecondRun } : RunL168(i)

RuleSpec == Init /\ [][RuleNext]_vars

(* ------------------------------- claims -------------------------------- *)

Terminal == { "done", "error" }

NonTerminal == { "pending", "running" }

StatusMoves ==
  { << "pending", "running" >>, << "running", "done" >>,
    << "running", "error" >> }

\* C1: a job's stored status changes only along pending -> running ->
\* {done, error}: a new job starts pending, no status moves backward, none
\* becomes terminal without having been running, and a terminal status never
\* changes again; no job leaves the store.
C1_StatusOnlyForward ==
  [][ \A i \in ScanIds :
        /\ i \in DOMAIN SCANS =>
             /\ i \in DOMAIN SCANS'
             /\ SCANS'[i].status # SCANS[i].status =>
                  << SCANS[i].status, SCANS'[i].status >> \in StatusMoves
        /\ (i \notin DOMAIN SCANS /\ i \in DOMAIN SCANS') =>
             SCANS'[i].status = "pending" ]_vars

\* C1 witness: one job is done while another is still running.
C1_Witness ==
  \E i, j \in DOMAIN SCANS :
    SCANS[i].status = "done" /\ SCANS[j].status = "running"

\* C2: a reader never gets a record whose status is pending or running
\* together with a present score or present findings.
C2_NoPartialCommitObserved ==
  (ret.op = "get_scan" /\ Get(ret.body).status \in NonTerminal) =>
    (Get(ret.body).score = None /\ Get(ret.body).issues = None)

\* C3: every stored job, and every record returned to a reader, that has a
\* terminal status has both a score and a findings list.
C3_TerminalHasResults ==
  /\ \A i \in DOMAIN SCANS :
       SCANS[i].status \in Terminal =>
         (Present(SCANS[i].score) /\ Present(SCANS[i].issues))
  /\ (ret.op = "get_scan" /\ Get(ret.body).status \in Terminal) =>
       (Present(Get(ret.body).score) /\ Present(Get(ret.body).issues))

\* C4: a job whose pipeline failed during rule evaluation has status error
\* and neither score nor findings.
C4_FaultGivesError ==
  \A i \in ScanIds :
    pc[i] = "crashed" =>
      /\ SCANS[i].status = "error"
      /\ SCANS[i].score = None
      /\ SCANS[i].issues = None

FetchFailedFor(i) == Present(fetched[i]) /\ ~Get(fetched[i]).ok

\* C5: when the fetch fails, the task holds exactly one finding, of area
\* security and severity high, with the failure cause as evidence; nothing
\* else is ever stored for the job, its score is 80, the task does not fail,
\* and when it has finished the job is done with that finding and score 80.
C5_FetchFailureIsDone ==
  \A i \in ScanIds :
    FetchFailedFor(i) =>
      /\ pc[i] \in { "l166", "l167", "l168", "finished" }
      /\ Present(issues[i])
      /\ Len(Get(issues[i])) = 1
      /\ Get(issues[i])[1].area = "security"
      /\ Get(issues[i])[1].severity = "high"
      /\ Get(issues[i])[1].evidence.error = Get(fetched[i]).error
      /\ SCANS[i].issues \in { None, issues[i] }
      /\ SCANS[i].score \in { None, Some(80) }
      /\ pc[i] = "finished" =>
           /\ SCANS[i].status = "done"
           /\ SCANS[i].issues = issues[i]
           /\ SCANS[i].score = Some(80)

\* C5 witness: a job whose fetch failed is done.
C5_Witness ==
  \E i \in DOMAIN SCANS : FetchFailedFor(i) /\ SCANS[i].status = "done"

\* C6: a query for an identifier create_scan never issued returns no job
\* record.
C6_UnknownIdNotFound ==
  (ret.op = "get_scan" /\ ret.id \notin DOMAIN SCANS) => ret.body = None

\* C7: every job that was created eventually has a terminal status.
C7_EveryJobTerminates ==
  \A i \in ScanIds :
    (i \in DOMAIN SCANS) ~>
      (i \in DOMAIN SCANS /\ SCANS[i].status \in Terminal)

\* C8: create_scan stores the job under an identifier not in the store
\* before; until the call has returned the stored record is pending with no
\* score and no findings and the job's task has taken no step and fetched
\* nothing; the record the call returns is that pending record.
C8_CreateReturnsPending ==
  /\ [](\A i \in ScanIds :
          call[i] = "l175" =>
            /\ i \in DOMAIN SCANS
            /\ SCANS[i] = ScanResult(i, "pending", None, None)
            /\ pc[i] = "queued"
            /\ fetched[i] = None)
  /\ [](ret.op = "create_scan" =>
          /\ Get(ret.body) = ScanResult(ret.id, "pending", None, None)
          /\ fetched[ret.id] = None
          /\ issues[ret.id] = None)
  /\ [][ \A i \in ScanIds :
           (call[i] = "none" /\ call'[i] = "l175") =>
             (i \notin DOMAIN SCANS /\ i \in DOMAIN SCANS') ]_vars

\* C8 witness: a create_scan call returns while another job is running.
C8_Witness ==
  /\ ret.op = "create_scan"
  /\ \E j \in DOMAIN SCANS : j # ret.id /\ SCANS[j].status = "running"

Count(found, severity) ==
  Cardinality({ k \in 1 .. Len(found) : found[k].severity = severity })

Deduction(found) ==
  20 * Count(found, "high") + 10 * Count(found, "medium")
    + 3 * Count(found, "low")

\* C9: compute_score returns 100 minus 20 per high, 10 per medium and 3 per
\* low finding, clamped to [0,100]: always in 0..100, 100 for no finding,
\* 0 once the deductions reach 100.
C9_ScoreIsClampedSum ==
  Present(scOut) =>
    /\ Get(scOut) \in 0 .. 100
    /\ Get(scOut) =
         IF 100 - Deduction(scCur) < 0 THEN 0
         ELSE IF 100 - Deduction(scCur) > 100 THEN 100
         ELSE 100 - Deduction(scCur)
    /\ scCur = << >> => Get(scOut) = 100
    /\ Deduction(scCur) >= 100 => Get(scOut) = 0

\* C9 witness: a score was computed for findings whose deductions exceed 100.
C9_Witness ==
  Present(scOut) /\ Deduction(scCur) > 100 /\ Get(scOut) = 0

\* C10: the score computed for a reordering of a finding sequence equals the
\* score computed for the sequence before.
C10_ScoreOrderIndependent ==
  (Present(scOut) /\ Present(score0)) => scOut = score0

\* C10 witness: a score was computed for a sequence of mixed severities after
\* it was reordered.
C10_Witness ==
  /\ Present(scOut)
  /\ scSwapped
  /\ \A s \in Severities : Count(scCur, s) > 0

RuleRuns == { FirstRun, SecondRun }

\* The job's task fetched a page, and analyze returned its findings.
Analyzed(i) == Present(fetched[i]) /\ fetched[i][1].ok /\ Present(issues[i])

PageOf(i) == fetched[i][1].page

InArea(found, area) == SelectSeq(found, LAMBDA f : f.area = area)

HasTracker(page) == page.trackers # { }

HasCmp(page) == page.cmps # { }

\* C11: in the findings analyze returns for a fetched page there is at most
\* one cookies finding: none when the body has no tracker substring, the
\* high "trackers without CMP" one when it has a tracker and no CMP
\* substring, the medium "CMP detected" one when it has both; and what the
\* job stores is that list.
C11_TrackerRuleExclusive ==
  \A i \in RuleRuns :
    Analyzed(i) =>
      LET c == InArea(Get(issues[i]), "cookies") IN
        /\ Len(c) <= 1
        /\ ~HasTracker(PageOf(i)) => c = << >>
        /\ (HasTracker(PageOf(i)) /\ ~HasCmp(PageOf(i))) =>
             /\ Len(c) = 1
             /\ c[1].severity = "high"
             /\ c[1].title = "Tracker di terze parti senza CMP rilevata"
        /\ (HasTracker(PageOf(i)) /\ HasCmp(PageOf(i))) =>
             /\ Len(c) = 1
             /\ c[1].severity = "medium"
             /\ c[1].title = "CMP rilevata. Verifica blocco preventivo"
        /\ SCANS[i].issues \in { None, issues[i] }

\* C11 witness: a job is done for a page with a tracker and a CMP.
C11_Witness ==
  /\ Analyzed(FirstRun)
  /\ HasTracker(PageOf(FirstRun)) /\ HasCmp(PageOf(FirstRun))
  /\ SCANS[FirstRun].status = "done"

\* The rule a finding comes from, by its title, in declaration order; 0 for
\* a finding no rule emits.
RuleIndex(f) ==
  CASE f.title = "Connessione non protetta (HTTPS mancante)" -> 1
    [] f.title = "Header di sicurezza mancanti" -> 2
    [] f.title = "Informativa privacy trovata ma non validata" -> 3
    [] f.title = "Informativa privacy non rilevata" -> 3
    [] f.title = "Tracker di terze parti senza CMP rilevata" -> 4
    [] f.title = "CMP rilevata. Verifica blocco preventivo" -> 4
    [] OTHER -> 0

\* C12: the findings analyze returns for a fetched page are in rule order
\* (HTTPS, headers, policy, trackers) with at most one per rule; the job
\* stores that same sequence; and a repeated run on the identical resource
\* returns the identical sequence.
C12_FindingsInRuleOrder ==
  /\ \A i \in RuleRuns :
       Analyzed(i) =>
         LET found == Get(issues[i]) IN
           /\ \A k \in 1 .. Len(found) : RuleIndex(found[k]) \in 1 .. 4
           /\ \A k \in 1 .. (Len(found) - 1) :
                RuleIndex(found[k]) < RuleIndex(found[k + 1])
           /\ SCANS[i].issues \in { None, issues[i] }
           /\ pc[i] \in { "l167", "l168", "finished" } =>
                SCANS[i].issues = issues[i]
  /\ (Analyzed(FirstRun) /\ Analyzed(SecondRun)
        /\ fetched[FirstRun] = fetched[SecondRun]) =>
       issues[FirstRun] = issues[SecondRun]

\* C12 witness: the repeated run has stored four findings, one per rule.
C12_Witness ==
  /\ Analyzed(SecondRun)
  /\ pc[SecondRun] = "finished"
  /\ Len(Get(SCANS[SecondRun].issues)) = 4

\* The job's task fetched a page (http_get returned).
FetchedPage(i) == Present(fetched[i]) /\ fetched[i][1].ok

\* An <a> that links somewhere and has "privacy" in its text or its href.
PrivacyLink(a) == a.has_href /\ (a.text_privacy \/ a.href.privacy)

\* The page has a discoverable privacy link: its first privacy link has an
\* href that resolves to a URL.
Discoverable(page) ==
  \E k \in 1 .. Len(page.anchors) :
    /\ PrivacyLink(page.anchors[k])
    /\ page.anchors[k].href.valid
    /\ \A j \in 1 .. (k - 1) : ~PrivacyLink(page.anchors[j])

\* HTTPS final URL, all five required headers, a discoverable privacy link
\* and no tracker substring.
TidyPage(page) ==
  /\ Scheme(page.final_url) = "https"
  /\ \A k \in 1 .. Len(SEC_HEADERS) : SEC_HEADERS[k] \in page.headers
  /\ Discoverable(page)
  /\ ~HasTracker(page)

Severity(found) == [ k \in 1 .. Len(found) |-> found[k].severity ]

\* HTTPS final URL, exactly two of the five required headers missing, no
\* privacy link, tracker substrings and no CMP substring.
TrackedPage(page) ==
  /\ Scheme(page.final_url) = "https"
  /\ Cardinality({ k \in 1 .. Len(SEC_HEADERS) :
                     SEC_HEADERS[k] \notin page.headers }) = 2
  /\ \A k \in 1 .. Len(page.anchors) : ~PrivacyLink(page.anchors[k])
  /\ HasTracker(page)
  /\ ~HasCmp(page)

\* C14: on such a page the task does not fail and holds exactly three
\* findings of severities low, high, high in that order; nothing else is
\* stored, and a job that has finished is done with them and score 57.
C14_TrackedPageScores57 ==
  \A i \in RuleRuns :
    (FetchedPage(i) /\ TrackedPage(PageOf(i))) =>
      /\ pc[i] \in { "l166", "l167", "l168", "finished" }
      /\ Present(issues[i])
      /\ Severity(Get(issues[i])) = << "low", "high", "high" >>
      /\ SCANS[i].issues \in { None, issues[i] }
      /\ SCANS[i].score \in { None, Some(57) }
      /\ pc[i] = "finished" =>
           /\ SCANS[i].status = "done"
           /\ SCANS[i].issues = issues[i]
           /\ SCANS[i].score = Some(57)

\* C14 witness: a job is done on such a page.
C14_Witness ==
  /\ FetchedPage(FirstRun)
  /\ TrackedPage(PageOf(FirstRun))
  /\ SCANS[FirstRun].status = "done"

Unreachable(found) ==
  \E k \in 1 .. Len(found) : found[k].title = "Sito non raggiungibile"

\* C15: the unreachable-site finding is produced only after two failed fetch
\* attempts: the first, and the one retry.
C15_RetriesOnceBeforeFailing ==
  \A i \in ScanIds :
    (Present(issues[i]) /\ Unreachable(Get(issues[i]))) =>
      /\ Len(fetched[i]) = 2
      /\ ~fetched[i][1].ok
      /\ ~fetched[i][2].ok

\* What the job's task stores when it runs alone on the fetch outcome it got.
AloneResult(i) ==
  LET r == analyze(req[i].url, fetched[i][1]) IN
    IF r.raised
    THEN ScanResult(i, "running", None, None)
    ELSE ScanResult(i, "done", Some(compute_score(r.value)), Some(r.value))

\* C16: a step of one job's create_scan call or background task leaves the
\* stored record of every other job as it was, and a job whose task has
\* ended holds the status, findings and score it would hold had it run alone
\* on the same fetch outcome.
C16_JobsIndependent ==
  /\ [][ \A a \in ScanIds :
           (pc'[a] # pc[a]) =>
             \A b \in (DOMAIN SCANS) \ { a } :
               b \in DOMAIN SCANS' /\ SCANS'[b] = SCANS[b] ]_vars
  /\ [](\A i \in ScanIds : Ended(i) => SCANS[i] = AloneResult(i))

\* C16 witness: two tasks are between their writes at the same time, with
\* different findings stored.
C16_Witness ==
  \E i, j \in DOMAIN SCANS :
    /\ pc[i] = "l168" /\ pc[j] = "l167"
    /\ SCANS[i].issues # SCANS[j].issues

\* No <a> of the page has "privacy" in its text or in its href.
NoPrivacyAnchor(page) ==
  \A k \in 1 .. Len(page.anchors) :
    /\ ~page.anchors[k].text_privacy
    /\ ~(page.anchors[k].has_href /\ page.anchors[k].href.privacy)

AnalyzeEnded(i) == pc[i] \in { "l166", "l167", "l168", "finished", "crashed" }

\* C17: once analyze has ended on a fetched page there is exactly one policy
\* finding: the high one exactly when no anchor has "privacy" in its text or
\* href, and otherwise the medium one.
C17_PolicyFindingByAnchors ==
  \A i \in RuleRuns :
    (FetchedPage(i) /\ AnalyzeEnded(i)) =>
      /\ Present(issues[i])
      /\ LET p == InArea(Get(issues[i]), "policy") IN
           /\ Len(p) = 1
           /\ (p[1].severity = "high") <=> NoPrivacyAnchor(PageOf(i))
           /\ (p[1].severity = "medium") <=> ~NoPrivacyAnchor(PageOf(i))

\* The entries of SEC_HEADERS the response lacks, in the order of SEC_HEADERS.
AbsentHeaders(page) ==
  SelectSeq(SEC_HEADERS, LAMBDA h : h \notin page.headers)

HeaderFindings(found) ==
  SelectSeq(found, LAMBDA f : f.title = "Header di sicurezza mancanti")

\* C18: the findings analyze returns for a fetched page hold one low security
\* finding about headers exactly when a required header is absent, and its
\* evidence lists all the absent headers and no other.
C18_HeaderFindingListsAbsent ==
  \A i \in RuleRuns :
    Analyzed(i) =>
      LET h == HeaderFindings(Get(issues[i]))
          absent == AbsentHeaders(PageOf(i))
      IN  /\ Len(h) = IF absent = << >> THEN 0 ELSE 1
          /\ Len(h) = 1 =>
               /\ h[1].severity = "low"
               /\ h[1].area = "security"
               /\ h[1].evidence.missing = absent

\* C18 witness: a finished job whose page lacks two headers that are not
\* neighbours in SEC_HEADERS, and has the others.
C18_Witness ==
  \E i \in RuleRuns :
    /\ Analyzed(i)
    /\ pc[i] = "finished"
    /\ AbsentHeaders(PageOf(i)) = << SEC_HEADERS[2], SEC_HEADERS[4] >>
    /\ Len(HeaderFindings(Get(issues[i]))) = 1

\* C19: a task performs exactly one fetch whatever its depth, and an
\* "extended" job that fetched what a "quick" job on the same URL fetched
\* ends with the same status, findings and score.
C19_DepthHasNoEffect ==
  /\ \A i \in ScanIds :
       /\ Len(fetched[i]) <= 1
       /\ AnalyzeEnded(i) => Len(fetched[i]) = 1
  /\ \A i, j \in ScanIds :
       ( /\ Ended(i) /\ Ended(j)
         /\ req[i].depth = "quick" /\ req[j].depth = "extended"
         /\ req[i].url = req[j].url
         /\ fetched[i][1] = fetched[j][1] ) =>
           /\ SCANS[i].status = SCANS[j].status
           /\ SCANS[i].issues = SCANS[j].issues
           /\ SCANS[i].score = SCANS[j].score

\* C19 witness: a quick and an extended job on the same URL both finished
\* on the same page, one that has a privacy link to follow.
C19_Witness ==
  \E i, j \in ScanIds :
    /\ pc[i] = "finished" /\ pc[j] = "finished"
    /\ req[i].depth = "quick" /\ req[j].depth = "extended"
    /\ req[i].url = req[j].url
    /\ fetched[i] = fetched[j]
    /\ fetched[j][1].ok
    /\ \E k \in 1 .. Len(PageOf(j).anchors) : PrivacyLink(PageOf(j).anchors[k])
    /\ SCANS[j].status = "done"

\* The identifiers create_scan has issued so far.
Issued == { i \in ScanIds : call[i] # "none" }

\* C20: a step that returns from get_scan leaves the job store as it was,
\* the stored identifiers are always exactly the issued ones, and no step
\* removes a stored job.
C20_QueriesReadOnly ==
  /\ [][ (ret'.op = "get_scan") => (SCANS' = SCANS) ]_vars
  /\ [](DOMAIN SCANS = Issued)
  /\ [][ DOMAIN SCANS \subseteq DOMAIN SCANS' ]_vars

\* C20 witness: get_scan has just answered for an identifier never issued,
\* while a job is stored, and the store holds no record for that identifier.
C20_Witness ==
  /\ ret.op = "get_scan"
  /\ ret.id \notin Issued
  /\ ret.id \notin DOMAIN SCANS
  /\ DOMAIN SCANS # { }

====
